---- MODULE Spec2Model ----
(***************************************************************************)
(* licences-db: the SPDX identifier parser (parse_license_version, in both *)
(* build_license_dataset.py and add_version_fields.py), the usage          *)
(* classifier (get_license_usage_category) and the build_dataset loops.    *)
(*                                                                         *)
(* A Python str is modelled as a sequence of one-character strings, so     *)
(* that `in`, str.replace, str.rstrip, str.startswith and re.search are    *)
(* computed character by character, as CPython computes them.              *)
(***************************************************************************)
EXTENDS Integers, Sequences, FiniteSets, TLC

\* ------------------------------------------------------------------ bounds

\* Identifiers fed to the parser are concatenations of at most MaxPieces
\* pieces of ParsePieces.
MaxPieces == 3
\* Identifiers fed to the classifier beside the table keys are concatenations
\* of at most MaxClassPieces pieces of ClassPieces.
MaxClassPieces == 2
\* The list the SPDX server holds has at most MaxItems entries.
MaxItems == 2

\* ---------------------------------------------------------- Python values

\* Python's None.  Every str is a sequence of one-character strings, so this
\* one-element sequence is equal to no str.
None == <<"None">>

\* --------------------------------------------------------- string literals

S_only == <<"-","o","n","l","y">>
S_or_later == <<"-","o","r","-","l","a","t","e","r">>
S_plus == <<"+">>
S_GPL == <<"G","P","L">>
S_LGPL == <<"L","G","P","L">>
S_AGPL == <<"A","G","P","L">>
S_GFDL == <<"G","F","D","L">>
S_CC0 == <<"C","C","0">>
S_CC_dash == <<"C","C","-">>
S_CC_BY == <<"C","C","-","B","Y">>
S_Creative_Commons == <<"C","r","e","a","t","i","v","e"," ","C","o","m","m","o","n","s">>
S_BSD == <<"B","S","D">>
S_Apache == <<"A","p","a","c","h","e">>
S_RAIL == <<"R","A","I","L">>
S_OpenRAIL == <<"O","p","e","n","R","A","I","L">>
S_CDLA == <<"C","D","L","A">>
S_ODbL == <<"O","D","b","L">>

\* ------------------------------------------------------- str operations

\* s[i-1:i-1+len(p)] == p, with i counted from 1.
MatchesAt(s, p, i) ==
    /\ i >= 1
    /\ i + Len(p) - 1 <= Len(s)
    /\ \A k \in 1..Len(p) : s[i + k - 1] = p[k]

\* p in s
Contains(s, p) == \E i \in 1..(Len(s) - Len(p) + 1) : MatchesAt(s, p, i)

\* s.startswith(p)
StartsWith(s, p) == MatchesAt(s, p, 1)

\* s.endswith(p)
EndsWith(s, p) == Len(p) <= Len(s) /\ MatchesAt(s, p, Len(s) - Len(p) + 1)

\* s.replace(old, ""): one pass from the left; each occurrence found is
\* dropped and the scan resumes right after it, so occurrences do not overlap
\* and text that the removal joins together is not scanned again.
RECURSIVE ReplaceFrom(_, _, _)
ReplaceFrom(s, old, i) ==
    IF i > Len(s) THEN <<>>
    ELSE IF MatchesAt(s, old, i) THEN ReplaceFrom(s, old, i + Len(old))
    ELSE <<s[i]>> \o ReplaceFrom(s, old, i + 1)

Replace(s, old) == ReplaceFrom(s, old, 1)

\* s.rstrip(c) for a one-character c
RECURSIVE RStrip(_, _)
RStrip(s, c) ==
    IF Len(s) > 0 /\ s[Len(s)] = c THEN RStrip(SubSeq(s, 1, Len(s) - 1), c)
    ELSE s

\* ------------------------------------------------------------- re.search

\* \d (the ASCII digits; the inputs of this model hold no other digit)
Digits == {"0","1","2","3","4","5","6","7","8","9"}

\* \d+ from position j: the position right after the longest run of digits
\* that starts at j (j itself when s[j] is no digit).
RECURSIVE DigitsEnd(_, _)
DigitsEnd(s, j) ==
    IF j <= Len(s) /\ s[j] \in Digits THEN DigitsEnd(s, j + 1) ELSE j

\* (?:\.\d+)*(?:\.\d+)? from position j: greedy, any number of ".digits"
\* groups; the position right after the last group.
RECURSIVE GroupsEnd(_, _)
GroupsEnd(s, j) ==
    IF j <= Len(s) /\ s[j] = "." /\ DigitsEnd(s, j + 1) > j + 1
    THEN GroupsEnd(s, DigitsEnd(s, j + 1))
    ELSE j

\* $ without re.MULTILINE: the end of the string, or just before a newline
\* that is the last character of the string.
AtDollar(s, e) == e = Len(s) + 1 \/ (e = Len(s) /\ s[e] = "\n")

\* MatchEnd without the trailing (?:-|$).
MatchEnd_NoTail(s, i) ==
    IF i > Len(s) \/ s[i] # "-" THEN 0
    ELSE LET d == DigitsEnd(s, i + 1)
             e == GroupsEnd(s, d)
         IN IF d = i + 1 THEN 0 ELSE e

\* The pattern -(\d+(?:\.\d+)*(?:\.\d+)?)(?:-|$) tried at position i.  The
\* result is the position right after group 1, or 0 when there is no match
\* at i.  Backtracking finds nothing the greedy attempt misses: a shorter
\* group 1 is followed by a digit or a dot, never by "-" or the end.
MatchEnd(s, i) ==
    IF i > Len(s) \/ s[i] # "-" THEN 0
    ELSE LET d == DigitsEnd(s, i + 1)
             e == GroupsEnd(s, d)
         IN IF d = i + 1 THEN 0
            ELSE IF (e <= Len(s) /\ s[e] = "-") \/ AtDollar(s, e) THEN e
            ELSE 0

\* re.search: the match at the smallest start position, 0 when none.
RECURSIVE SearchFrom(_, _)
SearchFrom(s, i) ==
    IF i > Len(s) THEN 0
    ELSE IF MatchEnd(s, i) # 0 THEN i
    ELSE SearchFrom(s, i + 1)

\* The match at the largest start position instead of the smallest.
RECURSIVE SearchBack(_, _)
SearchBack(s, i) ==
    IF i < 1 THEN 0
    ELSE IF MatchEnd(s, i) # 0 THEN i
    ELSE SearchBack(s, i - 1)

ReSearch_Last(s) == SearchBack(s, Len(s))

ReSearch(s) == SearchFrom(s, 1)

\* ------------------------------------------------- get_license_usage_category

\* The exact-match table, one record per key of the dict.
LICENSE_USAGE_MAP ==
    {
      [id |-> <<"M","I","T">>, category |-> "both"],
      [id |-> <<"A","p","a","c","h","e","-","2",".","0">>, category |-> "both"],
      [id |-> <<"B","S","D","-","2","-","C","l","a","u","s","e">>, category |-> "both"],
      [id |-> <<"B","S","D","-","3","-","C","l","a","u","s","e">>, category |-> "both"],
      [id |-> <<"G","P","L","-","3",".","0">>, category |-> "both"],
      [id |-> <<"G","P","L","-","2",".","0">>, category |-> "both"],
      [id |-> <<"L","G","P","L","-","3",".","0">>, category |-> "both"],
      [id |-> <<"L","G","P","L","-","2",".","1">>, category |-> "both"],
      [id |-> <<"I","S","C">>, category |-> "both"],
      [id |-> <<"M","P","L","-","2",".","0">>, category |-> "both"],
      [id |-> <<"C","C","0","-","1",".","0">>, category |-> "both"],
      [id |-> <<"C","C","-","B","Y","-","4",".","0">>, category |-> "dataset"],
      [id |-> <<"C","C","-","B","Y","-","S","A","-","4",".","0">>, category |-> "dataset"],
      [id |-> <<"C","C","-","B","Y","-","N","C","-","4",".","0">>, category |-> "dataset"],
      [id |-> <<"C","C","-","B","Y","-","N","C","-","S","A","-","4",".","0">>, category |-> "dataset"],
      [id |-> <<"C","C","-","B","Y","-","N","D","-","4",".","0">>, category |-> "dataset"],
      [id |-> <<"C","C","-","B","Y","-","N","C","-","N","D","-","4",".","0">>, category |-> "dataset"],
      [id |-> <<"C","D","L","A","-","P","e","r","m","i","s","s","i","v","e","-","1",".","0">>, category |-> "dataset"],
      [id |-> <<"C","D","L","A","-","P","e","r","m","i","s","s","i","v","e","-","2",".","0">>, category |-> "dataset"],
      [id |-> <<"C","D","L","A","-","S","h","a","r","i","n","g","-","1",".","0">>, category |-> "dataset"],
      [id |-> <<"C","-","U","D","A","-","1",".","0">>, category |-> "dataset"],
      [id |-> <<"O","D","b","L","-","1",".","0">>, category |-> "dataset"],
      [id |-> <<"P","D","D","L","-","1",".","0">>, category |-> "dataset"],
      [id |-> <<"O","p","e","n","R","A","I","L","-","M">>, category |-> "model"],
      [id |-> <<"O","p","e","n","R","A","I","L","+","+">>, category |-> "model"],
      [id |-> <<"B","i","g","S","c","i","e","n","c","e","-","O","p","e","n","R","A","I","L","-","M">>, category |-> "model"],
      [id |-> <<"C","r","e","a","t","i","v","e","M","L","-","O","p","e","n","R","A","I","L","-","M">>, category |-> "model"],
      [id |-> <<"B","i","g","S","c","i","e","n","c","e","-","B","L","O","O","M","-","R","A","I","L","-","1",".","0">>, category |-> "model"],
      [id |-> <<"A","G","P","L","-","3",".","0">>, category |-> "code"],
      [id |-> <<"U","n","l","i","c","e","n","s","e">>, category |-> "both"],
      [id |-> <<"W","T","F","P","L">>, category |-> "code"],
      [id |-> <<"Z","l","i","b">>, category |-> "code"],
      [id |-> <<"B","S","L","-","1",".","0">>, category |-> "code"],
      [id |-> <<"S","S","P","L","-","1",".","0">>, category |-> "code"]
    }

\* spdx_id in LICENSE_USAGE_MAP
InUsageMap(id) == \E e \in LICENSE_USAGE_MAP : e.id = id

\* LICENSE_USAGE_MAP[spdx_id]
UsageMapValue(id) == (CHOOSE e \in LICENSE_USAGE_MAP : e.id = id).category

\* PatternCategory with the RAIL rule ahead of the others.
PatternCategory_RailFirst(id) ==
    IF Contains(id, S_RAIL) \/ Contains(id, S_OpenRAIL) THEN "model"
    ELSE IF Contains(id, S_CC_BY) \/ Contains(id, S_CC_dash) THEN "dataset"
    ELSE IF Contains(id, S_GPL) \/ Contains(id, S_LGPL) THEN "both"
    ELSE IF Contains(id, S_BSD) THEN "both"
    ELSE IF Contains(id, S_Apache) THEN "both"
    ELSE IF Contains(id, S_CDLA) \/ Contains(id, S_ODbL) THEN "dataset"
    ELSE "other"

\* The substring rules below the table lookup, in the order of the ifs.
PatternCategory(id) ==
    IF Contains(id, S_CC_BY) \/ Contains(id, S_CC_dash) THEN "dataset"
    ELSE IF Contains(id, S_GPL) \/ Contains(id, S_LGPL) THEN "both"
    ELSE IF Contains(id, S_BSD) THEN "both"
    ELSE IF Contains(id, S_Apache) THEN "both"
    ELSE IF Contains(id, S_RAIL) \/ Contains(id, S_OpenRAIL) THEN "model"
    ELSE IF Contains(id, S_CDLA) \/ Contains(id, S_ODbL) THEN "dataset"
    ELSE "other"

\* get_license_usage_category with the substring rules ahead of the table.
get_license_usage_category_PatternFirst(id) ==
    IF PatternCategory(id) # "other" THEN PatternCategory(id)
    ELSE IF InUsageMap(id) THEN UsageMapValue(id)
    ELSE "other"

get_license_usage_category(id) ==
    IF InUsageMap(id) THEN UsageMapValue(id) ELSE PatternCategory(id)

\* ------------------------------ build_license_dataset.parse_license_version

M_only == <<"o","n","l","y">>
M_or_later == <<"o","r","-","l","a","t","e","r">>

\* ExtractModifier that sets the modifier and leaves the identifier as it was.
ExtractModifier_NoStrip(id) ==
    IF Contains(id, S_only)
    THEN [version_modifier |-> M_only, spdx_id |-> id]
    ELSE IF Contains(id, S_or_later)
    THEN [version_modifier |-> M_or_later, spdx_id |-> id]
    ELSE IF EndsWith(id, S_plus)
    THEN [version_modifier |-> M_or_later, spdx_id |-> id]
    ELSE [version_modifier |-> None, spdx_id |-> id]

\* ExtractModifier with the "-or-later" test ahead of the "-only" test.
ExtractModifier_OrLaterFirst(id) ==
    IF Contains(id, S_or_later)
    THEN [version_modifier |-> M_or_later, spdx_id |-> Replace(id, S_or_later)]
    ELSE IF Contains(id, S_only)
    THEN [version_modifier |-> M_only, spdx_id |-> Replace(id, S_only)]
    ELSE IF EndsWith(id, S_plus)
    THEN [version_modifier |-> M_or_later, spdx_id |-> RStrip(id, "+")]
    ELSE [version_modifier |-> None, spdx_id |-> id]

\* The if / elif / elif on the modifier: the modifier and the identifier as
\* the rest of the function sees it.
ExtractModifier(id) ==
    IF Contains(id, S_only)
    THEN [version_modifier |-> M_only, spdx_id |-> Replace(id, S_only)]
    ELSE IF Contains(id, S_or_later)
    THEN [version_modifier |-> M_or_later, spdx_id |-> Replace(id, S_or_later)]
    ELSE IF EndsWith(id, S_plus)
    THEN [version_modifier |-> M_or_later, spdx_id |-> RStrip(id, "+")]
    ELSE [version_modifier |-> None, spdx_id |-> id]

\* version_match.group(1) and spdx_id[:version_match.start()], or None and
\* the whole identifier when re.search finds nothing.
ExtractVersion(w) ==
    LET i == ReSearch(w)
    IN IF i # 0
       THEN [version |-> SubSeq(w, i + 1, MatchEnd(w, i) - 1),
             license_family |-> SubSeq(w, 1, i - 1)]
       ELSE [version |-> None, license_family |-> w]

\* NormalizeFamily without the Creative Commons branch.
NormalizeFamily_NoCC(family) == family

\* "Special handling for common families"
NormalizeFamily(family) ==
    IF family \in {S_GPL, S_LGPL, S_AGPL, S_GFDL} THEN family
    ELSE IF family = S_CC0 THEN S_CC0
    ELSE IF StartsWith(family, S_CC_dash) THEN S_Creative_Commons
    ELSE family

\* The function as a whole.
parse_license_version(id) ==
    LET m == ExtractModifier(id)
        v == ExtractVersion(m.spdx_id)
    IN [license_family |-> NormalizeFamily(v.license_family),
        version |-> v.version,
        version_modifier |-> m.version_modifier]

\* -------------------------------- add_version_fields.parse_license_version

AddExtractModifier(id) ==
    IF Contains(id, S_only)
    THEN [version_modifier |-> M_only, spdx_id |-> Replace(id, S_only)]
    ELSE IF Contains(id, S_or_later)
    THEN [version_modifier |-> M_or_later, spdx_id |-> Replace(id, S_or_later)]
    ELSE IF EndsWith(id, S_plus)
    THEN [version_modifier |-> M_or_later, spdx_id |-> RStrip(id, "+")]
    ELSE [version_modifier |-> None, spdx_id |-> id]

AddExtractVersion(w) ==
    LET i == ReSearch(w)
    IN IF i # 0
       THEN [version |-> SubSeq(w, i + 1, MatchEnd(w, i) - 1),
             license_family |-> SubSeq(w, 1, i - 1)]
       ELSE [version |-> None, license_family |-> w]

add_parse_license_version(id) ==
    LET m == AddExtractModifier(id)
        v == AddExtractVersion(m.spdx_id)
    IN [license_family |-> v.license_family,
        version |-> v.version,
        version_modifier |-> m.version_modifier]

\* ------------------------------------------------------------------ inputs

\* Every concatenation of at most n pieces.
RECURSIVE Concatenations(_, _)
Concatenations(pieces, n) ==
    IF n = 0 THEN {<<>>}
    ELSE LET shorter == Concatenations(pieces, n - 1)
         IN shorter \cup {s \o p : s \in shorter, p \in pieces}

\* Pieces of parser inputs: family names, digits and dotted groups, a
\* non-numeric hyphenated segment, the three modifier markers, the two halves
\* of "-only", and a newline.
ParsePieces ==
    { <<"G","P","L">>,
      <<"C","C">>,
      <<"0">>,
      <<"-","1">>,
      <<".","0">>,
      <<".","0",".","0",".","0">>,
      <<"-","B">>,
      <<"-","o","n","l","y">>,
      <<"-","o","r","-","l","a","t","e","r">>,
      <<"+">>,
      <<"-","o","n">>,
      <<"l","y">>,
      <<"\n">> }

\* Pieces of classifier inputs: the substrings the fallback rules look for,
\* and text none of them matches.
ClassPieces ==
    { <<"C","C","-">>,
      <<"G","P","L">>,
      <<"L">>,
      <<"B","S","D">>,
      <<"A","p","a","c","h","e">>,
      <<"R","A","I","L">>,
      <<"C","D","L","A">>,
      <<"O","D","b","L">>,
      <<"X">>,
      <<"-","1">> }

ParseIds == Concatenations(ParsePieces, MaxPieces)

\* The table keys, each key followed by one more piece, and free
\* concatenations.
ClassIds ==
    {e.id : e \in LICENSE_USAGE_MAP}
        \cup {e.id \o p : e \in LICENSE_USAGE_MAP, p \in ClassPieces}
        \cup Concatenations(ClassPieces, MaxClassPieces)

Ids == ParseIds \cup ClassIds

\* ------------------------------------------------------------------- state

VARIABLES
    spdx_id,      \* the identifier given to the functions
    pc,           \* position in the run over this identifier
    usage,        \* get_license_usage_category's return value
    work,         \* build_license_dataset: the local spdx_id, as reassigned
    result,       \* build_license_dataset: the dict result
    add_work,     \* add_version_fields: the local spdx_id, as reassigned
    add_result,   \* add_version_fields: the dict result
    script,       \* build_dataset of "licenses" (build_license_dataset.py) or
                  \* of "exceptions" (build_spdx_exceptions.py)
    sample,       \* build_dataset's argument: <<>> for None, <<n>> for n
    listing,      \* the list the SPDX server holds
    licenses,     \* build_dataset: licenses / exceptions
    bpc,          \* build_dataset: position
    idx,          \* build_dataset: number of list entries the loop has taken
    item_id,      \* build_dataset: spdx_id / exc_id
    detail_outcome,  \* how the server answered the detail request of this entry
    detail,       \* build_dataset: detail
    fsf_data,     \* build_dataset: fsf_data
    fsf_gpl_compat,  \* build_dataset: fsf_gpl_compat
    rows          \* build_dataset: rows

parse_vars == <<spdx_id, pc, usage, work, result, add_work, add_result>>

build_vars == <<script, sample, listing, licenses, bpc, idx, item_id,
                detail_outcome, detail, fsf_data, fsf_gpl_compat, rows>>

vars == <<parse_vars, build_vars>>

EmptyResult == [license_family |-> None, version |-> None, version_modifier |-> None]

\* {} and None as build_dataset sees them: a detail document with no key,
\* and no FSF document.
EmptyDetail == [licenseId |-> None, name |-> None, licenseText |-> None]
NoFsf == [is_none |-> TRUE, tags |-> <<>>]

\* The build_dataset variables while no build runs.
BuildIdle ==
    /\ script = "none"
    /\ sample = <<>>
    /\ listing = <<>>
    /\ licenses = <<>>
    /\ bpc = "idle"
    /\ idx = 0
    /\ item_id = None
    /\ detail_outcome = "none"
    /\ detail = EmptyDetail
    /\ fsf_data = NoFsf
    /\ fsf_gpl_compat = None
    /\ rows = <<>>

Init ==
    /\ spdx_id \in Ids
    /\ pc = "usage"
    /\ usage = "unset"
    /\ work = spdx_id
    /\ result = EmptyResult
    /\ add_work = spdx_id
    /\ add_result = EmptyResult
    /\ BuildIdle

\* usage_category = get_license_usage_category(spdx_id)
Classify ==
    /\ pc = "usage"
    /\ usage' = get_license_usage_category(spdx_id)
    /\ pc' = "modifier"
    /\ UNCHANGED <<spdx_id, work, result, add_work, add_result>>
    /\ UNCHANGED build_vars

\* build_license_dataset.parse_license_version, the modifier block
Modifier ==
    /\ pc = "modifier"
    /\ LET m == ExtractModifier(work)
       IN /\ result' = [result EXCEPT !.version_modifier = m.version_modifier]
          /\ work' = m.spdx_id
    /\ pc' = "version"
    /\ UNCHANGED <<spdx_id, usage, add_work, add_result>>
    /\ UNCHANGED build_vars

\* build_license_dataset.parse_license_version, the version block
Version ==
    /\ pc = "version"
    /\ LET v == ExtractVersion(work)
       IN result' = [result EXCEPT !.version = v.version,
                                   !.license_family = v.license_family]
    /\ pc' = "family"
    /\ UNCHANGED <<spdx_id, usage, work, add_work, add_result>>
    /\ UNCHANGED build_vars

\* build_license_dataset.parse_license_version, the family block and return
Family ==
    /\ pc = "family"
    /\ result' = [result EXCEPT !.license_family = NormalizeFamily(result.license_family)]
    /\ pc' = "add_modifier"
    /\ UNCHANGED <<spdx_id, usage, work, add_work, add_result>>
    /\ UNCHANGED build_vars

\* add_version_fields.parse_license_version, the modifier block
AddModifier ==
    /\ pc = "add_modifier"
    /\ LET m == AddExtractModifier(add_work)
       IN /\ add_result' = [add_result EXCEPT !.version_modifier = m.version_modifier]
          /\ add_work' = m.spdx_id
    /\ pc' = "add_version"
    /\ UNCHANGED <<spdx_id, usage, work, result>>
    /\ UNCHANGED build_vars

\* add_version_fields.parse_license_version, the version block and return
AddVersion ==
    /\ pc = "add_version"
    /\ LET v == AddExtractVersion(add_work)
       IN add_result' = [add_result EXCEPT !.version = v.version,
                                           !.license_family = v.license_family]
    /\ pc' = "done"
    /\ UNCHANGED <<spdx_id, usage, work, result, add_work>>
    /\ UNCHANGED build_vars

Next ==
    \/ Classify
    \/ Modifier
    \/ Version
    \/ Family
    \/ AddModifier
    \/ AddVersion

Spec == Init /\ [][Next]_vars

\* ------------------------------------------------------------ build_dataset

\* Two identifiers of list entries, and their names (a name is kept whole).
Id_CC_BY_4_0 == <<"C","C","-","B","Y","-","4",".","0">>
Id_GPL_2_0_only == <<"G","P","L","-","2",".","0","-","o","n","l","y">>
Name_CC_BY_4_0 == <<"Creative Commons Attribution 4.0 International">>
Name_GPL_2_0_only == <<"GNU General Public License v2.0 only">>

\* Entries of the list document: with both keys, without "name", without
\* the id key (None stands for a key the entry does not have).
ListEntries ==
    { [id |-> Id_CC_BY_4_0, name |-> Name_CC_BY_4_0],
      [id |-> Id_GPL_2_0_only, name |-> Name_GPL_2_0_only],
      [id |-> Id_CC_BY_4_0, name |-> None],
      [id |-> None, name |-> Name_GPL_2_0_only] }

Listings == UNION {[1..n -> ListEntries] : n \in 0..MaxItems}

\* The --sample values tried: None, and three numbers.
Samples == {<<>>, <<0 - 1>>, <<0>>, <<1>>}

\* How a request can end.
Outcomes == {"ok", "http_error", "timeout", "bad_json"}

\* list[:n]
Slice(list, n) ==
    IF n >= 0
    THEN SubSeq(list, 1, IF n < Len(list) THEN n ELSE Len(list))
    ELSE SubSeq(list, 1, IF Len(list) + n > 0 THEN Len(list) + n ELSE 0)

\* The detail document the server holds for an identifier.
DetailDocument(id) ==
    [licenseId |-> id, name |-> <<"name of ">> \o id, licenseText |-> <<"text of ">> \o id]

\* fetch_license_detail and fetch_exception_detail: the document, or {} when
\* raise_for_status, the timeout or resp.json() raises.
fetch_license_detail(id, outcome) ==
    IF outcome = "ok" THEN DetailDocument(id) ELSE EmptyDetail

\* The FSF documents a request may bring: without tags, and with tags.
FsfDocuments ==
    { [is_none |-> FALSE, tags |-> <<>>],
      [is_none |-> FALSE, tags |-> <<"gpl-2-compatible", "gpl-3-compatible", "libre">>] }

\* fetch_fsf_metadata: the document, or None when the status is not 200, or
\* the timeout or resp.json() raises.
fetch_fsf_metadata(outcome, document) ==
    IF outcome = "ok" THEN document ELSE NoFsf

\* fsf_gpl_compatibility, after its own fetch_fsf_metadata has returned data.
GplCompatibility(data) ==
    IF data.is_none THEN None
    ELSE LET tags == {data.tags[k] : k \in 1..Len(data.tags)}
         IN IF "gpl-3-compatible" \in tags /\ "gpl-2-compatible" \in tags
            THEN <<"GPL-2 and GPL-3 compatible">>
            ELSE IF "gpl-3-compatible" \in tags THEN <<"GPL-3 compatible only">>
            ELSE IF "gpl-2-compatible" \in tags THEN <<"GPL-2 compatible only">>
            ELSE IF "non-free" \in tags THEN <<"Non-free (not GPL-compatible)">>
            ELSE IF "libre" \in tags THEN <<"Free (libre) but not marked GPL-compatible">>
            ELSE IF "viewpoint" \in tags THEN <<"Viewpoint-restricted">>
            ELSE IF "fdl-compatible" \in tags THEN <<"FDL-compatible">>
            ELSE <<"Unknown / not classified by FSF">>

\* ', '.join(tags), each tag between the given quotes
RECURSIVE JoinTags(_, _)
JoinTags(tags, quote) ==
    IF Len(tags) = 0 THEN <<>>
    ELSE IF Len(tags) = 1 THEN <<quote, tags[1], quote>>
    ELSE <<quote, tags[1], quote, ", ">> \o JoinTags(Tail(tags), quote)

\* json.dumps of a list of strings
JsonDumps(tags) == <<"[">> \o JoinTags(tags, "\"") \o <<"]">>

\* lic.get("reference", f"https://spdx.org/licenses/{spdx_id}.html"), for
\* an entry without "reference"
SourceUrl(id) == <<"https://spdx.org/licenses/">> \o id \o <<".html">>

\* build_license_dataset.build_page_markdown, for a document without
\* comment, header and references.  fsf_tags is None or a list.  The text
\* is kept as a sequence of pieces, with ' written for each backquote.
build_page_markdown(d, source_url, fsf_tags, compat) ==
    IF d = EmptyDetail THEN <<>>
    ELSE <<"# ">> \o d.name \o <<"\n">>
         \o <<"**SPDX Identifier:** '">> \o d.licenseId \o <<"'\n">>
         \o <<"**Source:** ">> \o source_url \o <<"\n">>
         \o (IF (fsf_tags # None /\ fsf_tags # <<>>) \/ compat # None
             THEN <<"## FSF Classification\n\n">>
                  \o (IF compat # None
                      THEN <<"**GPL compatibility:** ">> \o compat \o <<"\n\n">>
                      ELSE <<>>)
                  \o (IF fsf_tags # None /\ fsf_tags # <<>>
                      THEN <<"**Tags:** ">> \o JoinTags(fsf_tags, "") \o <<"\n\n">>
                      ELSE <<>>)
                  \o <<"(Source: [FSF License List API](https://github.com/spdx/fsf-api))\n\n">>
             ELSE <<>>)
         \o <<"## License Text\n\n", "'''\n">> \o d.licenseText \o <<"\n'''\n">>

\* build_spdx_exceptions.build_page_markdown, for a document without
\* comment and references.
exceptions_build_page_markdown(d, source_url) ==
    IF d = EmptyDetail THEN <<>>
    ELSE <<"# ">> \o d.name \o <<"\n">>
         \o <<"**SPDX Exception ID:** '">> \o d.licenseId \o <<"'\n">>
         \o <<"**Source:** ">> \o source_url \o <<"\n">>
         \o <<"\n**Used in expressions:** 'LICENSE WITH ">> \o d.licenseId \o <<"'\n">>
         \o <<"## Exception Text\n\n", "'''\n">> \o d.licenseText \o <<"\n'''\n">>

\* The identifiers of the list entries.
EntryIds == {e.id : e \in ListEntries} \ {None}

\* get_license_usage_category(spdx_id) and parse_license_version(spdx_id,
\* lic["name"]) for the identifiers of the list entries, worked out once.
UsageCategoryOf == [id \in EntryIds |-> get_license_usage_category(id)]
VersionInfoOf == [id \in EntryIds |-> parse_license_version(id)]

\* The dict build_license_dataset.build_dataset appends for one entry.
LicenseRow(lic, id, d, fsf, compat) ==
    LET full_text == IF d # EmptyDetail THEN d.licenseText ELSE <<>>
        source_url == SourceUrl(id)
        fsf_tags == IF ~fsf.is_none THEN fsf.tags ELSE <<>>
        fsf_tags_str == IF fsf_tags # <<>> THEN JsonDumps(fsf_tags) ELSE None
        page_markdown ==
            IF d # EmptyDetail
            THEN build_page_markdown(d, source_url,
                                     IF ~fsf.is_none THEN fsf_tags ELSE None, compat)
            ELSE <<>>
        usage_category == UsageCategoryOf[id]
        version_info == VersionInfoOf[id]
    IN [license_name |-> lic.name,
        spdx_id |-> id,
        license_family |-> version_info.license_family,
        version |-> version_info.version,
        version_modifier |-> version_info.version_modifier,
        usage_category |-> usage_category,
        full_text |-> full_text,
        source_url |-> source_url,
        page_markdown |-> page_markdown,
        fsf_tags |-> fsf_tags_str,
        fsf_gpl_compatibility |-> compat]

\* The dict build_spdx_exceptions.build_dataset appends for one entry.
ExceptionRow(exc, id, d) ==
    LET source_url == SourceUrl(id)
    IN [exception_id |-> id,
        exception_name |-> IF exc.name = None THEN <<>> ELSE exc.name,
        full_text |-> IF d # EmptyDetail THEN d.licenseText ELSE <<>>,
        source_url |-> source_url,
        page_markdown |-> IF d # EmptyDetail
                          THEN exceptions_build_page_markdown(d, source_url)
                          ELSE <<>>,
        is_deprecated |-> FALSE]

\* A build starts: the script, its --sample and the server's list are given.
BuildInit ==
    /\ spdx_id = <<>>
    /\ pc = "idle"
    /\ usage = "unset"
    /\ work = <<>>
    /\ result = EmptyResult
    /\ add_work = <<>>
    /\ add_result = EmptyResult
    /\ script \in {"licenses", "exceptions"}
    /\ sample \in Samples
    /\ listing \in Listings
    /\ licenses = <<>>
    /\ bpc = "fetch_list"
    /\ idx = 0
    /\ item_id = None
    /\ detail_outcome = "none"
    /\ detail = EmptyDetail
    /\ fsf_data = NoFsf
    /\ fsf_gpl_compat = None
    /\ rows = <<>>

\* fetch_license_list() / fetch_exceptions_list(), then the [:sample] cut.
\* A failed request raises out of build_dataset.
FetchList ==
    /\ bpc = "fetch_list"
    /\ \E outcome \in Outcomes :
          IF outcome = "ok"
          THEN /\ licenses' = IF sample = <<>> THEN listing ELSE Slice(listing, sample[1])
               /\ bpc' = "loop"
          ELSE /\ licenses' = licenses
               /\ bpc' = "list_failed"
    /\ UNCHANGED <<script, sample, listing, idx, item_id, detail_outcome, detail,
                   fsf_data, fsf_gpl_compat, rows>>
    /\ UNCHANGED parse_vars

\* The for statement: the next entry and its id, or the end of the loop.
\* lic["licenseId"] raises KeyError on an entry without the key;
\* exc.get("licenseExceptionId", "") does not.
NextItem ==
    /\ bpc = "loop"
    /\ IF idx < Len(licenses)
       THEN LET e == licenses[idx + 1]
            IN IF script = "licenses" /\ e.id = None
               THEN /\ bpc' = "crashed"
                    /\ UNCHANGED <<idx, item_id>>
               ELSE /\ idx' = idx + 1
                    /\ item_id' = IF e.id = None THEN <<>> ELSE e.id
                    /\ bpc' = "detail"
       ELSE /\ bpc' = "save"
            /\ UNCHANGED <<idx, item_id>>
    /\ UNCHANGED <<script, sample, listing, licenses, detail_outcome, detail,
                   fsf_data, fsf_gpl_compat, rows>>
    /\ UNCHANGED parse_vars

\* FetchDetail that gives up the entry when the request fails.
FetchDetail_SkipOnFailure ==
    /\ bpc = "detail"
    /\ \E outcome \in Outcomes :
          /\ detail_outcome' = outcome
          /\ detail' = fetch_license_detail(item_id, outcome)
          /\ bpc' = IF outcome # "ok" THEN "loop"
                    ELSE IF script = "licenses" THEN "fsf_data" ELSE "append"
    /\ UNCHANGED <<script, sample, listing, licenses, idx, item_id,
                   fsf_data, fsf_gpl_compat, rows>>
    /\ UNCHANGED parse_vars

\* detail = fetch_license_detail(spdx_id) / fetch_exception_detail(exc_id)
FetchDetail ==
    /\ bpc = "detail"
    /\ \E outcome \in Outcomes :
          /\ detail_outcome' = outcome
          /\ detail' = fetch_license_detail(item_id, outcome)
    /\ bpc' = IF script = "licenses" THEN "fsf_data" ELSE "append"
    /\ UNCHANGED <<script, sample, listing, licenses, idx, item_id,
                   fsf_data, fsf_gpl_compat, rows>>
    /\ UNCHANGED parse_vars

\* fsf_data = fetch_fsf_metadata(spdx_id)
FetchFsfData ==
    /\ bpc = "fsf_data"
    /\ \E outcome \in Outcomes : \E document \in FsfDocuments :
          fsf_data' = fetch_fsf_metadata(outcome, document)
    /\ bpc' = "fsf_compat"
    /\ UNCHANGED <<script, sample, listing, licenses, idx, item_id, detail_outcome,
                   detail, fsf_gpl_compat, rows>>
    /\ UNCHANGED parse_vars

\* fsf_gpl_compat = fsf_gpl_compatibility(spdx_id), which sends a request of
\* its own
FetchFsfCompat ==
    /\ bpc = "fsf_compat"
    /\ \E outcome \in Outcomes : \E document \in FsfDocuments :
          fsf_gpl_compat' = GplCompatibility(fetch_fsf_metadata(outcome, document))
    /\ bpc' = "append"
    /\ UNCHANGED <<script, sample, listing, licenses, idx, item_id, detail_outcome,
                   detail, fsf_data, rows>>
    /\ UNCHANGED parse_vars

\* The rest of the loop body, to rows.append.  lic["name"] raises KeyError on
\* an entry without the key; exc.get("name", "") does not.
AppendRow ==
    /\ bpc = "append"
    /\ LET e == licenses[idx]
       IN IF script = "licenses"
          THEN IF e.name = None
               THEN /\ bpc' = "crashed"
                    /\ rows' = rows
               ELSE /\ rows' = Append(rows, LicenseRow(e, item_id, detail, fsf_data,
                                                       fsf_gpl_compat))
                    /\ bpc' = "loop"
          ELSE /\ rows' = Append(rows, ExceptionRow(e, item_id, detail))
               /\ bpc' = "loop"
    /\ detail_outcome' = "none"
    /\ UNCHANGED <<script, sample, listing, licenses, idx, item_id, detail,
                   fsf_data, fsf_gpl_compat>>
    /\ UNCHANGED parse_vars

\* Dataset.from_list(rows) and the three writes
Save ==
    /\ bpc = "save"
    /\ bpc' = "done"
    /\ UNCHANGED <<script, sample, listing, licenses, idx, item_id, detail_outcome,
                   detail, fsf_data, fsf_gpl_compat, rows>>
    /\ UNCHANGED parse_vars

BuildNext ==
    \/ FetchList
    \/ NextItem
    \/ FetchDetail
    \/ FetchFsfData
    \/ FetchFsfCompat
    \/ AppendRow
    \/ Save

\* Every request of the loop has a timeout and the loop body does not wait
\* for anything else, so a build that can take a step takes it.
BuildSpec == BuildInit /\ [][BuildNext]_vars /\ WF_vars(BuildNext)

\* -------------------------------------------------------------- properties

\* The parser has gone through its modifier block / its version block /
\* returned.
AfterModifier == pc \notin {"usage", "modifier"}
AfterVersion == pc \notin {"usage", "modifier", "version"}
Parsed == pc \notin {"usage", "modifier", "version", "family"}

HasOnly(id) == \E i \in 1..(Len(id) - 4) : SubSeq(id, i, i + 4) = S_only
HasOrLater(id) == \E i \in 1..(Len(id) - 8) : SubSeq(id, i, i + 8) = S_or_later
EndsInPlus(id) == Len(id) > 0 /\ id[Len(id)] = "+"

\* C1: version_modifier is "only" when the identifier contains "-only",
\* whatever else it contains; otherwise "or-later" when it contains
\* "-or-later" or ends with "+"; otherwise None; never anything else.
C1_ModifierPriority ==
    AfterModifier =>
        /\ HasOnly(spdx_id) => result.version_modifier = M_only
        /\ (~HasOnly(spdx_id) /\ (HasOrLater(spdx_id) \/ EndsInPlus(spdx_id)))
              => result.version_modifier = M_or_later
        /\ (~HasOnly(spdx_id) /\ ~HasOrLater(spdx_id) /\ ~EndsInPlus(spdx_id))
              => result.version_modifier = None
        /\ result.version_modifier \in {M_only, M_or_later, None}

\* An identifier that holds "-only" and "-or-later" both has been parsed, and
\* the modifier is "only".
C1_Witness ==
    /\ Parsed
    /\ HasOnly(spdx_id)
    /\ HasOrLater(spdx_id)
    /\ result.version_modifier = M_only

\* t is digit groups joined by dots: digits and dots only, a digit first and
\* last, no two dots in a row.
DottedNumber(t) ==
    /\ Len(t) > 0
    /\ \A k \in 1..Len(t) : t[k] \in Digits \cup {"."}
    /\ t[1] # "." /\ t[Len(t)] # "."
    /\ \A k \in 1..(Len(t) - 1) : ~(t[k] = "." /\ t[k + 1] = ".")

\* Number of digit groups of a dotted number.
Components(t) == Cardinality({k \in 1..Len(t) : t[k] = "."}) + 1

\* w[i] is a hyphen, w[i+1 .. e-1] a dotted number, and position e is a
\* hyphen or the end of the string.
RunToEnd(w, i, e) ==
    /\ w[i] = "-"
    /\ DottedNumber(SubSeq(w, i + 1, e - 1))
    /\ (e = Len(w) + 1 \/ w[e] = "-")

\* The same, where a newline that is the last character of the string also
\* ends the run.
RunToDollar(w, i, e) ==
    /\ w[i] = "-"
    /\ DottedNumber(SubSeq(w, i + 1, e - 1))
    /\ (e = Len(w) + 1 \/ w[e] = "-" \/ (e = Len(w) /\ w[e] = "\n"))

HasRunToEnd(w) == \E i \in 1..Len(w) : \E e \in (i + 2)..(Len(w) + 1) : RunToEnd(w, i, e)
HasRunToDollar(w) == \E i \in 1..Len(w) : \E e \in (i + 2)..(Len(w) + 1) : RunToDollar(w, i, e)

\* C2, as claimed: version is the leftmost hyphen-delimited numeric run (a
\* hyphen, a dotted number, then a hyphen or the end of the string) of the
\* working string and the family before normalization is the text before
\* the run's hyphen; with no such run version is None and the family is the
\* whole working string.
C2_LeftmostRun_AsClaimed ==
    pc = "family" =>
        /\ \A i \in 1..Len(work) : \A e \in (i + 2)..(Len(work) + 1) :
              (/\ RunToEnd(work, i, e)
               /\ \A j \in 1..(i - 1) : \A f \in (j + 2)..(Len(work) + 1) :
                     ~RunToEnd(work, j, f))
                 => /\ result.version = SubSeq(work, i + 1, e - 1)
                    /\ result.license_family = SubSeq(work, 1, i - 1)
        /\ ~HasRunToEnd(work)
              => result.version = None /\ result.license_family = work

\* C2, amended: the same with the run ended by a hyphen, by the end of the
\* string, or by a newline that is the string's last character.
C2_LeftmostRun ==
    pc = "family" =>
        /\ \A i \in 1..Len(work) : \A e \in (i + 2)..(Len(work) + 1) :
              (/\ RunToDollar(work, i, e)
               /\ \A j \in 1..(i - 1) : \A f \in (j + 2)..(Len(work) + 1) :
                     ~RunToDollar(work, j, f))
                 => /\ result.version = SubSeq(work, i + 1, e - 1)
                    /\ result.license_family = SubSeq(work, 1, i - 1)
        /\ ~HasRunToDollar(work)
              => result.version = None /\ result.license_family = work

\* The working string holds two runs with different numbers, and the version
\* is the number of the left one.
C2_Witness ==
    /\ pc = "family"
    /\ \E i \in 1..Len(work) : \E e \in (i + 2)..(Len(work) + 1) :
          /\ RunToDollar(work, i, e)
          /\ \E j \in (i + 1)..Len(work) : \E f \in (j + 2)..(Len(work) + 1) :
                /\ RunToDollar(work, j, f)
                /\ SubSeq(work, j + 1, f - 1) # SubSeq(work, i + 1, e - 1)
          /\ result.version = SubSeq(work, i + 1, e - 1)
          /\ result.license_family = SubSeq(work, 1, i - 1)

\* C3: version is None or a dotted number of one to three digit groups.
C3_AtMostThreeComponents ==
    AfterVersion =>
        \/ result.version = None
        \/ (DottedNumber(result.version) /\ Components(result.version) <= 3)

\* C4, as claimed: every identifier that starts with "CC-" gets the family
\* "Creative Commons".
C4_CreativeCommons_AsClaimed ==
    (Parsed /\ Len(spdx_id) >= 3 /\ SubSeq(spdx_id, 1, 3) = S_CC_dash)
        => result.license_family = S_Creative_Commons

\* C4, amended: the family block turns a family that starts with "CC-" into
\* "Creative Commons" and leaves the families CC0, GPL, LGPL, AGPL and GFDL
\* as they are.  (The family of "CC-1.0" or "CC-only" is "CC" and stays.)
C4_CreativeCommons ==
    [][pc = "family" =>
          /\ (Len(result.license_family) >= 3
                  /\ SubSeq(result.license_family, 1, 3) = S_CC_dash)
                => result'.license_family = S_Creative_Commons
          /\ result.license_family \in {S_CC0, S_GPL, S_LGPL, S_AGPL, S_GFDL}
                => result'.license_family = result.license_family]_vars

\* An identifier that starts with "CC-" and carries a version has been
\* parsed into the family "Creative Commons".
C4_Witness ==
    /\ Parsed
    /\ Len(spdx_id) >= 3 /\ SubSeq(spdx_id, 1, 3) = S_CC_dash
    /\ result.version # None
    /\ result.license_family = S_Creative_Commons

\* C5: a key of LICENSE_USAGE_MAP gets the table's value.
C5_TablePrecedence ==
    pc # "usage" =>
        \A e \in LICENSE_USAGE_MAP : e.id = spdx_id => usage = e.category

\* The substring rules as the claim lists them: the patterns of each rule
\* and its label, in order.
FallbackRules ==
    << [patterns |-> {S_CC_BY, S_CC_dash}, label |-> "dataset"],
       [patterns |-> {S_GPL, S_LGPL}, label |-> "both"],
       [patterns |-> {S_BSD}, label |-> "both"],
       [patterns |-> {S_Apache}, label |-> "both"],
       [patterns |-> {S_RAIL, S_OpenRAIL}, label |-> "model"],
       [patterns |-> {S_CDLA, S_ODbL}, label |-> "dataset"] >>

\* Some pattern of rule k is a substring of id.
RuleHits(k, id) ==
    \E p \in FallbackRules[k].patterns :
        \E i \in 1..(Len(id) - Len(p) + 1) : SubSeq(id, i, i + Len(p) - 1) = p

\* A table key that a substring rule would label differently has been
\* classified, with the table's label.
C5_Witness ==
    /\ pc # "usage"
    /\ \E e \in LICENSE_USAGE_MAP : e.id = spdx_id /\ usage = e.category
    /\ \E k \in 1..Len(FallbackRules) :
          RuleHits(k, spdx_id) /\ FallbackRules[k].label # usage

\* C6: an identifier that is no key of the table gets the label of the
\* first rule that hits, "other" when none does; the label of any
\* identifier is one of the five.
C6_FallbackOrder ==
    pc # "usage" =>
        /\ (\A e \in LICENSE_USAGE_MAP : e.id # spdx_id) =>
              /\ \A k \in 1..Len(FallbackRules) :
                    (RuleHits(k, spdx_id) /\ \A j \in 1..(k - 1) : ~RuleHits(j, spdx_id))
                        => usage = FallbackRules[k].label
              /\ (\A k \in 1..Len(FallbackRules) : ~RuleHits(k, spdx_id))
                        => usage = "other"
        /\ usage \in {"dataset", "model", "both", "code", "other"}

\* An identifier outside the table that two rules with different labels hit
\* has been classified, with the label of the earlier rule.
C6_Witness ==
    /\ pc # "usage"
    /\ \A e \in LICENSE_USAGE_MAP : e.id # spdx_id
    /\ \E j, k \in 1..Len(FallbackRules) :
          /\ j < k
          /\ RuleHits(j, spdx_id) /\ RuleHits(k, spdx_id)
          /\ \A h \in 1..(j - 1) : ~RuleHits(h, spdx_id)
          /\ FallbackRules[j].label # FallbackRules[k].label
          /\ usage = FallbackRules[j].label

\* The identifier holds none of the three modifier markers.
NoMarker(id) == ~HasOnly(id) /\ ~HasOrLater(id) /\ ~EndsInPlus(id)

\* C7, as claimed: an identifier with no modifier marker and no numeric run
\* (ended by a hyphen or the end of the string) comes back whole as
\* license_family, with version and version_modifier None.
C7_Graceful_AsClaimed ==
    (Parsed /\ NoMarker(spdx_id) /\ ~HasRunToEnd(spdx_id))
        => result = [license_family |-> spdx_id, version |-> None,
                     version_modifier |-> None]

\* C7, amended: an identifier with no modifier marker and no numeric run
\* (ended by a hyphen, the end of the string or a final newline) comes back
\* with version and version_modifier None and with license_family the whole
\* identifier, or "Creative Commons" when the identifier starts with "CC-".
C7_Graceful ==
    (Parsed /\ NoMarker(spdx_id) /\ ~HasRunToDollar(spdx_id))
        => /\ result.version = None
           /\ result.version_modifier = None
           /\ result.license_family =
                 IF Len(spdx_id) >= 3 /\ SubSeq(spdx_id, 1, 3) = S_CC_dash
                 THEN S_Creative_Commons ELSE spdx_id

\* An identifier with a hyphen and a digit but no marker and no run has been
\* parsed and came back whole.
C7_Witness ==
    /\ Parsed
    /\ NoMarker(spdx_id) /\ ~HasRunToDollar(spdx_id)
    /\ \E i \in 1..(Len(spdx_id) - 1) : spdx_id[i] = "-" /\ spdx_id[i + 1] \in Digits
    /\ result = [license_family |-> spdx_id, version |-> None,
                 version_modifier |-> None]

\* C10: both parsers return the same three fields.
C10_ParsersAgree ==
    pc = "done" => add_result = result

\* Where p occurs in s.
OccurrencesOf(p, s) ==
    {i \in 1..(Len(s) - Len(p) + 1) : SubSeq(s, i, i + Len(p) - 1) = p}

\* s holds no "-only", no "-or-later", and no "+" at its end.
FreeOfMarkers(s) ==
    /\ OccurrencesOf(S_only, s) = {}
    /\ OccurrencesOf(S_or_later, s) = {}
    /\ ~EndsInPlus(s)

\* C9, as claimed: license_family holds no "-only", no "-or-later" and no
\* "+" at its end, whatever the identifier.
C9_FamilyStripped_AsClaimed ==
    Parsed => FreeOfMarkers(result.license_family)

\* s without the n characters from position i on.
Without(s, i, n) == SubSeq(s, 1, i - 1) \o SubSeq(s, i + n, Len(s))

\* s without its trailing run of "+".
WithoutTrailingPlus(s) ==
    LET keep == {n \in 0..Len(s) : \A k \in (n + 1)..Len(s) : s[k] = "+"}
    IN SubSeq(s, 1, CHOOSE n \in keep : \A m \in keep : n <= m)

\* The identifier holds at most one marker: one occurrence of "-only", else
\* one occurrence of "-or-later", else a trailing run of "+", else none.
AtMostOneMarker(id) ==
    /\ Cardinality(OccurrencesOf(S_only, id)) <= 1
    /\ OccurrencesOf(S_only, id) = {} => Cardinality(OccurrencesOf(S_or_later, id)) <= 1

\* The identifier with that marker taken out.
MarkerTakenOut(id) ==
    IF OccurrencesOf(S_only, id) # {}
    THEN Without(id, CHOOSE i \in OccurrencesOf(S_only, id) : TRUE, Len(S_only))
    ELSE IF OccurrencesOf(S_or_later, id) # {}
    THEN Without(id, CHOOSE i \in OccurrencesOf(S_or_later, id) : TRUE, Len(S_or_later))
    ELSE WithoutTrailingPlus(id)

\* C9, amended: when the identifier holds at most one marker and, with that
\* marker taken out, holds no "-only", no "-or-later", no "+-" and no "+" at
\* its end, license_family holds no "-only", no "-or-later" and no "+" at
\* its end.  (Only the marker of the first rule that fires is removed, in
\* one pass: a second marker, or one that the removal forms, stays.)
C9_FamilyStripped ==
    (/\ Parsed
     /\ AtMostOneMarker(spdx_id)
     /\ FreeOfMarkers(MarkerTakenOut(spdx_id))
     /\ OccurrencesOf(<<"+", "-">>, MarkerTakenOut(spdx_id)) = {})
        => FreeOfMarkers(result.license_family)

\* An identifier with a version and one "-only" has been parsed into a
\* family that is neither empty nor holds a marker.
C9_Witness ==
    /\ Parsed
    /\ Cardinality(OccurrencesOf(S_only, spdx_id)) = 1
    /\ FreeOfMarkers(MarkerTakenOut(spdx_id))
    /\ OccurrencesOf(<<"+", "-">>, MarkerTakenOut(spdx_id)) = {}
    /\ result.version # None
    /\ result.license_family # <<>>
    /\ FreeOfMarkers(result.license_family)

\* The list request has succeeded / every entry of the list has its id and
\* its name.
ListFetched == bpc \notin {"idle", "fetch_list", "list_failed"}
EntriesComplete ==
    \A k \in 1..Len(listing) : listing[k].id # None /\ listing[k].name # None

\* Row r carries the id and the name of list entry e.
RowCarries(r, e) ==
    IF script = "licenses"
    THEN r.spdx_id = e.id /\ r.license_name = e.name
    ELSE r.exception_id = e.id /\ r.exception_name = e.name

\* The loop is inside its body, the row of entry idx not yet appended.
InLoopBody == bpc \in {"detail", "fsf_data", "fsf_compat", "append"}

\* With the list fetched and its entries complete the build does not raise;
\* the rows are those of the entries taken so far, in list order, and at the
\* save step those of the whole list (the fetched list, or its [:sample]).
C8_RowsFollowList ==
    (ListFetched /\ EntriesComplete) =>
        /\ bpc # "crashed"
        /\ sample = <<>> => licenses = listing
        /\ Len(licenses) <= Len(listing)
        /\ \A k \in 1..Len(licenses) : licenses[k] = listing[k]
        /\ Len(rows) = IF InLoopBody THEN idx - 1 ELSE idx
        /\ bpc \in {"save", "done"} => Len(rows) = Len(licenses)
        /\ \A k \in 1..Len(rows) : RowCarries(rows[k], licenses[k])

\* The step that ends the loop body appends one row, that of the entry at
\* hand: with full_text "" and page_markdown "" when the detail request of
\* this entry failed, with the entry's text when it succeeded, whatever
\* the FSF requests did.  No step changes a row that is in rows.
C8_AppendStep ==
    /\ (ListFetched /\ EntriesComplete /\ bpc = "append") =>
          /\ Len(rows') = Len(rows) + 1
          /\ RowCarries(rows'[Len(rows')], licenses[idx])
          /\ detail_outcome # "ok" =>
                /\ rows'[Len(rows')].full_text = <<>>
                /\ rows'[Len(rows')].page_markdown = <<>>
          /\ detail_outcome = "ok" =>
                /\ rows'[Len(rows')].full_text = <<"text of ">> \o licenses[idx].id
                /\ rows'[Len(rows')].page_markdown # <<>>
    /\ \A k \in 1..Len(rows) : Len(rows') >= k /\ rows'[k] = rows[k]

\* C8: once the list is fetched and every entry has its id and name, the
\* build appends exactly one row per list entry, in list order, under every
\* outcome of the detail and FSF requests; an entry whose detail request
\* fails gets its row with full_text "" and page_markdown ""; no row changes
\* once appended; and the build reaches the save step.
C8_OneRowPerItem ==
    /\ [](C8_RowsFollowList)
    /\ [][C8_AppendStep]_vars
    /\ ((ListFetched /\ EntriesComplete) ~> (bpc \in {"save", "done"}))

\* A licenses build of a complete two-entry list is at the save step with
\* two rows in list order: the first of an entry whose detail request and
\* FSF requests failed, the second of an entry whose requests succeeded.
C8_Witness ==
    /\ bpc = "save"
    /\ script = "licenses"
    /\ sample = <<>>
    /\ EntriesComplete
    /\ Len(listing) = 2 /\ listing[1].id # listing[2].id
    /\ Len(rows) = 2
    /\ rows[1].spdx_id = listing[1].id /\ rows[2].spdx_id = listing[2].id
    /\ rows[1].full_text = <<>> /\ rows[1].page_markdown = <<>>
    /\ rows[1].fsf_gpl_compatibility = None
    /\ rows[2].full_text # <<>> /\ rows[2].fsf_gpl_compatibility # None

\* The row a licenses build appends in this step, and the fsf_data of the
\* loop body that built it.
RowAppended == script = "licenses" /\ bpc = "append" /\ Len(rows') = Len(rows) + 1
C11_CompatOnlyWithData ==
    RowAppended =>
        (rows'[Len(rows')].fsf_gpl_compatibility # None => ~fsf_data.is_none)
C11_NoTagsWithoutCompat ==
    RowAppended =>
        (rows'[Len(rows')].fsf_gpl_compatibility = None =>
            rows'[Len(rows')].fsf_tags = None)

\* C11: in every row a licenses build appends, the two FSF columns describe
\* the same FSF response, whatever each FSF request did: the row's
\* fsf_gpl_compatibility is non-null only if the fsf_data of its loop body
\* is non-null, and its fsf_tags is null whenever its fsf_gpl_compatibility
\* is null.
C11_FsfColumnsAgree == [][C11_CompatOnlyWithData /\ C11_NoTagsWithoutCompat]_vars
====
